---- MODULE Spec2Model ----
(***************************************************************************)
(* Model of the product GraphQL service of src/main.go: the POST /graphql  *)
(* handler, the three resolvers (products, product, createProduct) and the *)
(* four data access functions (fetchTotalData, fetchList, fetchOne,        *)
(* createProduct) running against one shared products table and one shared *)
(* connection pool.  Each request is a process; its steps are the handler  *)
(* prologue and then one step per SQL statement, so that the statements of *)
(* concurrent requests interleave.                                         *)
(***************************************************************************)
EXTENDS Integers, Sequences, FiniteSets, TLC

VARIABLES store, autoInc, insertedBy, req, inUse, stmts

vars == <<store, autoInc, insertedBy, req, inUse, stmts>>

(* ------------------------------ bounds -------------------------------- *)

\* number of request slots (requests in flight together)
NumReqs == 2
\* the table holds 0..MaxInitRows rows when the service starts
MaxInitRows == 2
\* page arguments 0..MaxPage and limit arguments 0..MaxLimit are tried
MaxPage == 2
MaxLimit == 2
\* how long one SQL statement may take (seconds), sampled
Durations == {1, 3, 6}

Slots == 1..NumReqs

(* ------------------------- program constants -------------------------- *)

\* context.WithTimeout(ctx, 5*time.Second)
TimeoutSec == 5
\* limit := 10
DefaultLimit == 10
\* page := 1
DefaultPage == 1
\* db.SetMaxOpenConns(50)
MaxOpenConns == 50
\* http.StatusOK, http.StatusBadRequest
StatusOK == 200
StatusBadRequest == 400

(* ------------------------------ values -------------------------------- *)

\* An optional value (a Go pointer, an absent argument, an SQL NULL) is a
\* sequence of length 0 or 1.
Nil == <<>>
Ptr(v) == <<v>>

Cols == {"mlId", "merchantId", "name", "longDesc", "shortDesc", "icon",
         "quota", "startPeriod", "endPeriod"}

\* The rows the table holds at start: columns are nullable text.
InitRow(i) ==
    [Id |-> i,
     col |-> [c \in Cols |->
                IF i % 2 = 1
                THEN (IF c \in {"name", "quota"} THEN Nil
                      ELSE IF c = "icon" THEN Ptr("") ELSE Ptr("a"))
                ELSE (IF c = "name" THEN Ptr("") ELSE Nil)]]

\* context.Background() has no deadline; a context with a deadline is the
\* time left before it.
Background == Nil

Min(a, b) == IF a <= b THEN a ELSE b

\* context.WithTimeout(parent, t): the earlier of the parent's deadline and t
WithTimeout(parent, t) ==
    IF parent = Nil THEN Ptr(t) ELSE Ptr(Min(parent[1], t))

\* A statement that takes d under context ctx is cancelled at the deadline.
Expires(ctx, d) == ctx # Nil /\ d >= ctx[1]

(* --------------------------- entity mapping --------------------------- *)

\* rows.Scan into a sql.NullString: NULL leaves String "" and Valid false
ScanString(cell) ==
    IF cell = Nil THEN [String |-> "", Valid |-> FALSE]
    ELSE [String |-> cell[1], Valid |-> TRUE]

\* rows.Scan into a sql.NullInt64
ScanInt(id) == [Int64 |-> id, Valid |-> TRUE]

\* rows.Scan(&data.Id, &data.MlId, ...): a stored row as a ListModel
ScanRow(row) ==
    [Id |-> ScanInt(row.Id), col |-> [c \in Cols |-> ScanString(row.col[c])]]

\* &item.X.String: the address of the String field, whatever Valid says
FieldPtr(ns) == Ptr(ns.String)

\* &ListEntity{Id: int(m.Id.Int64), MlId: &m.MlId.String, ...}
ToEntity(m) ==
    [Id |-> m.Id.Int64, col |-> [c \in Cols |-> FieldPtr(m.col[c])]]

\* &ListModel{MlId: sql.NullString{String: mlId, Valid: true}, ...}, where
\* mlId, _ := p.Args["mlId"].(string) is "" for an argument that is no string
InputModel(args) ==
    [c \in Cols |->
        [String |-> IF args[c] = Nil THEN "" ELSE args[c][1], Valid |-> TRUE]]

(* ----------------------------- pagination ----------------------------- *)

\* limit := 10; if val, ok := p.Args["limit"].(int); ok { limit = val }
EffectiveLimit(arg) == IF arg # Nil THEN arg[1] ELSE DefaultLimit

\* page := 1; if val, ok := p.Args["page"].(int); ok && val > 1 { page = val }
EffectivePage(arg) == IF arg # Nil /\ arg[1] > 1 THEN arg[1] ELSE DefaultPage

\* a variant of Offset that counts pages from 0
OffsetFromZero(page, limit) == page * limit

\* offset := (params.Page - 1) * params.Limit
Offset(page, limit) == (page - 1) * limit

\* d := float64(total) / float64(limit): a float64 is the exact quotient
\* (row counts and limits are far below 2^53), +Inf for n/0, NaN for 0/0
FloatDiv(total, limit) ==
    IF limit # 0 THEN [kind |-> "finite", num |-> total, den |-> limit]
    ELSE IF total = 0 THEN [kind |-> "NaN", num |-> 0, den |-> 0]
    ELSE [kind |-> "Inf", num |-> total, den |-> 0]

\* a variant of Ceil that truncates, as integer division would
CeilTruncating(d) == d.num \div d.den

\* math.Ceil of a finite quotient num/den
Ceil(d) ==
    LET n == IF d.den < 0 THEN -d.num ELSE d.num
        m == IF d.den < 0 THEN -d.den ELSE d.den
        q == n \div m
    IN  IF q * m = n THEN q ELSE q + 1

\* int(math.Ceil(d)): converting +Inf or NaN to int is implementation
\* dependent in Go; ImplMin and ImplMax stand for the extreme ints
ImplMin == -2147483647
ImplMax == 2147483647
TotalPages(total, limit) ==
    LET d == FloatDiv(total, limit)
    IN  IF d.kind = "finite" THEN {Ceil(d)} ELSE {ImplMin, 0, ImplMax}

\* SELECT ... from products p limit ? offset ? (the table's natural order)
PageRows(rows, limit, offset) ==
    SubSeq(rows, offset + 1, Min(Len(rows), offset + limit))

\* SELECT count(id) from products
CountRows(rows) == Len(rows)

\* SELECT ... from products p where p.id = ? limit 1
RowById(rows, id) ==
    LET hits == {i \in 1..Len(rows) : rows[i].Id = id}
    IN  IF hits = {} THEN Nil
        ELSE Ptr(rows[CHOOSE i \in hits : \A j \in hits : i <= j])

(* ------------------------------ requests ------------------------------ *)

NoArgs == [c \in Cols |-> Nil]

\* The body of a POST /graphql request.  json is what the body is as JSON:
\*   "malformed"       not JSON at all
\*   "nonobject"       well-formed JSON that is no object, such as [] or 7
\*   "querynotstring"  a well-formed object whose "query" is no string
\*   "trailing"        a well-formed {"query": "..."} followed by other text
\*   "ok"              a well-formed {"query": "..."}
\* and op is what its query document asks for.
Body(json, op, page, limit, id, args) ==
    [json |-> json, op |-> op, page |-> page, limit |-> limit, id |-> id,
     args |-> args]

BadBodies ==
    {Body(j, "none", Nil, Nil, Nil, NoArgs) :
        j \in {"malformed", "nonobject", "querynotstring"}}

UnparsableQueries ==
    {Body(j, "unparsable", Nil, Nil, Nil, NoArgs) : j \in {"ok", "trailing"}}

OptInts(lo, hi) == {Nil} \cup {Ptr(n) : n \in lo..hi}

ProductsQueries(pages, limits) ==
    {Body("ok", "products", p, l, Nil, NoArgs) : p \in pages, l \in limits}

ProductQueries(ids) ==
    {Body("ok", "product", Nil, Nil, i, NoArgs) : i \in ids}

FullArgs(s) == [c \in Cols |-> Ptr(s)]
MixedArgs == [c \in Cols |-> IF c \in {"name", "icon"} THEN Ptr("") ELSE Ptr("b")]
Without(args, c) == [args EXCEPT ![c] = Nil]

CreateMutations(argss) ==
    {Body("ok", "createProduct", Nil, Nil, Nil, a) : a \in argss}

\* every identifier the table can come to hold, and one more
Ids == 1..(MaxInitRows + NumReqs)

\* the requests of the concurrent workload
Workload ==
    ProductsQueries({Nil}, {Ptr(1)})
    \cup ProductQueries({Ptr(MaxInitRows + 1)})
    \cup CreateMutations({FullArgs("a"), MixedArgs})

\* the requests of the one-request workload
WideWorkload ==
    BadBodies \cup UnparsableQueries
    \cup ProductsQueries(OptInts(0, MaxPage), OptInts(0, MaxLimit))
    \cup ProductQueries({Nil} \cup {Ptr(i) : i \in Ids})
    \cup CreateMutations({FullArgs("a"), MixedArgs}
                         \cup {Without(MixedArgs, c) : c \in Cols})

\* A request slot nothing has arrived on.  id is the identifier fetchOne is
\* called with; ctx is the time left under createProduct's context.  The
\* fields past err are history the program reads none of: at is the last
\* stage the request ran, ops the statements it prepared, rowsAtCount the
\* table's size when it counted, hit whether its by-id query had a row to
\* find, insDur and rbDur how long createProduct's insert and read-back took.
IdleReq ==
    [pc |-> "idle", body |-> Body("malformed", "none", Nil, Nil, Nil, NoArgs),
     status |-> 0, engine |-> 0,
     limit |-> 0, page |-> 0, total |-> 0, totalPages |-> 0, offset |-> 0,
     id |-> 0, ctx |-> Background, cursor |-> "none",
     value |-> Nil, err |-> "nil",
     at |-> "none", ops |-> 0, rowsAtCount |-> 0, hit |-> FALSE,
     insDur |-> 0, rbDur |-> 0]

(* --------------------------- transport layer -------------------------- *)

\* a variant of ShouldBindJSON whose error is ignored
ShouldBindJSONUnchecked(body) == TRUE

\* c.ShouldBindJSON(&params): decodes the first JSON value of the body into
\* struct{Query string}; it fails on a syntax error and on a value of the
\* wrong type, and it does not look past the value it decoded
ShouldBindJSON(body) == body.json \in {"ok", "trailing"}

\* a variant of RequiredArgs in which endPeriod is a plain graphql.String
RequiredArgsButLast == Cols \ {"endPeriod"}

\* Args of createProduct: every argument is graphql.NewNonNull(graphql.String)
RequiredArgs == Cols

\* the engine's validation of a createProduct document against the schema
ValidArgs(args) == \A c \in RequiredArgs : args[c] # Nil

\* a variant of IdArg that ignores ok and keeps the zero value
IdArgIgnoringOk(body) == IF body.id = Nil THEN Ptr(0) ELSE body.id

\* id, ok := p.Args["id"].(int)
IdArg(body) == body.id

Init ==
    /\ \E n \in 0..MaxInitRows :
          /\ store = [i \in 1..n |-> InitRow(i)]
          /\ insertedBy = [i \in 1..n |-> 0]
          /\ autoInc = n + 1
    /\ req = [r \in Slots |-> IdleReq]
    /\ inUse = 0
    /\ stmts = 0

\* the engine's result has been written with c.JSON(http.StatusOK, result)
Finish(r, stage, value, err) ==
    [req[r] EXCEPT !.pc = "done", !.status = StatusOK, !.at = stage,
                   !.value = value, !.err = err]

\* a POST /graphql request arrives
Receive(r, body) ==
    /\ req[r].pc = "idle"
    /\ req' = [req EXCEPT ![r] = [IdleReq EXCEPT !.pc = "received", !.body = body]]
    /\ UNCHANGED <<store, autoInc, insertedBy, inUse, stmts>>

\* the handler up to the resolver's first data access call
Handle(r) ==
    LET q == req[r]
        b == q.body
        e == [q EXCEPT !.engine = q.engine + 1]
    IN
    /\ q.pc = "received"
    /\ req' = [req EXCEPT ![r] =
         IF ~ShouldBindJSON(b)
         THEN [q EXCEPT !.pc = "done", !.status = StatusBadRequest, !.at = "bind"]
         ELSE IF b.op = "unparsable"
         THEN [e EXCEPT !.pc = "done", !.status = StatusOK, !.at = "parse",
                        !.err = "ErrSyntax"]
         ELSE IF b.op = "createProduct" /\ ~ValidArgs(b.args)
         THEN [e EXCEPT !.pc = "done", !.status = StatusOK, !.at = "validate",
                        !.err = "ErrValidation"]
         ELSE IF b.op = "products"
         THEN [e EXCEPT !.pc = "count", !.at = "resolve",
                        !.limit = EffectiveLimit(b.limit),
                        !.page = EffectivePage(b.page)]
         ELSE IF b.op = "product"
         THEN (IF IdArg(b) # Nil
               THEN [e EXCEPT !.pc = "one", !.at = "resolve", !.id = IdArg(b)[1]]
               ELSE [e EXCEPT !.pc = "done", !.status = StatusOK, !.at = "resolve"])
         ELSE [e EXCEPT !.pc = "insert", !.at = "resolve"]]
    /\ UNCHANGED <<store, autoInc, insertedBy, inUse, stmts>>

(* ---------------------------- data access ----------------------------- *)

\* db.Prepare and the statement's query each need a pooled connection
ConnAvailable == inUse < MaxOpenConns

\* db.Prepare(query) fails: the call returns the driver's error at once
PrepareFails(r, stage) ==
    /\ req' = [req EXCEPT ![r] =
                [Finish(r, stage, Nil, "ErrDriver") EXCEPT !.ops = @ + 1]]
    /\ UNCHANGED <<store, autoInc, insertedBy, inUse, stmts>>

\* fetchTotalData, and the resolver's arithmetic that follows it.  The
\* prepared statement is never closed.
FetchTotalData(r) ==
    LET q == req[r]
        ctx == WithTimeout(Background, TimeoutSec)
    IN
    /\ q.pc = "count"
    /\ ConnAvailable
    /\ \/ PrepareFails(r, "count")
       \/ \E d \in Durations :
            /\ stmts' = stmts + 1
            /\ IF Expires(ctx, d)
               THEN req' = [req EXCEPT ![r] =
                       [Finish(r, "count", Nil, "ErrDeadline") EXCEPT !.ops = @ + 1]]
               ELSE \E tp \in TotalPages(CountRows(store), q.limit) :
                      req' = [req EXCEPT ![r] =
                        [q EXCEPT !.pc = "list", !.at = "count", !.ops = @ + 1,
                                  !.total = CountRows(store),
                                  !.totalPages = tp,
                                  !.rowsAtCount = Len(store)]]
            /\ UNCHANGED <<store, autoInc, insertedBy, inUse>>

\* the value the products resolver returns
PageValue(q, list) ==
    [data |-> list, page |-> q.page, limit |-> q.limit,
     totalData |-> q.total, totalPages |-> q.totalPages]

\* fetchList.  rows.Next() returning false closes the cursor; when rows.Scan
\* fails the function returns before defer rows.Close() is reached, with the
\* cursor open and its connection checked out.  The prepared statement is
\* never closed.
FetchList(r) ==
    LET q == req[r]
        ctx == WithTimeout(Background, TimeoutSec)
        offset == Offset(q.page, q.limit)
        rows == PageRows(store, q.limit, offset)
        o == [q EXCEPT !.offset = offset, !.ops = @ + 1]
    IN
    /\ q.pc = "list"
    /\ ConnAvailable
    /\ \/ PrepareFails(r, "list")
       \/ \E d \in Durations :
            /\ stmts' = stmts + 1
            /\ IF Expires(ctx, d)
               THEN /\ req' = [req EXCEPT ![r] =
                        [o EXCEPT !.pc = "done", !.status = StatusOK,
                                  !.at = "list", !.err = "ErrDeadline"]]
                    /\ inUse' = inUse
               ELSE \/ /\ rows # <<>>
                       /\ req' = [req EXCEPT ![r] =
                            [o EXCEPT !.pc = "done", !.status = StatusOK,
                                      !.at = "list", !.err = "ErrScan",
                                      !.cursor = "open"]]
                       /\ inUse' = inUse + 1
                    \/ /\ req' = [req EXCEPT ![r] =
                            [o EXCEPT !.pc = "done", !.status = StatusOK,
                                      !.at = "list", !.cursor = "closed",
                                      !.value = Ptr(PageValue(q,
                                         [i \in 1..Len(rows) |->
                                            ToEntity(ScanRow(rows[i]))]))]]
                       /\ inUse' = inUse
            /\ UNCHANGED <<store, autoInc, insertedBy>>

\* defer cancel() has run: database/sql closes a cursor whose context is
\* cancelled and hands its connection back, some time after fetchList returned
AwaitDone(r) ==
    /\ req[r].pc = "done"
    /\ req[r].cursor = "open"
    /\ req' = [req EXCEPT ![r].cursor = "closed"]
    /\ inUse' = inUse - 1
    /\ UNCHANGED <<store, autoInc, insertedBy, stmts>>

\* a variant of ScanOne that answers a missing row with an empty entity
ScanOneZeroValue(hit) ==
    IF hit = Nil
    THEN [value |-> Ptr(ToEntity([Id |-> [Int64 |-> 0, Valid |-> FALSE],
                                   col |-> [c \in Cols |-> ScanString(Nil)]])),
          err |-> "nil"]
    ELSE [value |-> Ptr(ToEntity(ScanRow(hit[1]))), err |-> "nil"]

\* what row.Scan yields for the row the query found, if any
ScanOne(hit) ==
    IF hit = Nil THEN [value |-> Nil, err |-> "ErrNoRows"]
    ELSE [value |-> Ptr(ToEntity(ScanRow(hit[1]))), err |-> "nil"]

\* a variant of QueryId that reads the newest row of the table
QueryIdNewest(q, rows) == IF rows = <<>> THEN q.id ELSE rows[Len(rows)].Id

\* stmt.QueryRowContext(ctx, id): the identifier bound to p.id = ?
QueryId(q, rows) == q.id

\* the context fetchOne runs its query under
FetchOneCtx(parent) == WithTimeout(parent, TimeoutSec)

\* fetchOne, for the product resolver (pc "one") and as the read-back of
\* createProduct (pc "readback", under createProduct's context).  row.Scan
\* closes the cursor on every path and reports the query's error, if any;
\* stmt.Close() is deferred on success only.
FetchOne(r) ==
    LET q == req[r]
        ctx == FetchOneCtx(q.ctx)
        stage == q.pc
    IN
    /\ q.pc \in {"one", "readback"}
    /\ ConnAvailable
    /\ \/ PrepareFails(r, stage)
       \/ \E d \in Durations :
            LET res == IF Expires(ctx, d)
                       THEN [value |-> Nil, err |-> "ErrDeadline"]
                       ELSE ScanOne(RowById(store, QueryId(q, store)))
            IN
            /\ req' = [req EXCEPT ![r] =
                    [Finish(r, stage, res.value, res.err) EXCEPT
                        !.ops = @ + 1, !.cursor = "closed",
                        !.rbDur = IF stage = "readback" THEN d ELSE 0,
                        !.hit = \E i \in 1..Len(store) : store[i].Id = q.id]]
            /\ stmts' = IF res.err = "nil" THEN stmts ELSE stmts + 1
            /\ UNCHANGED <<store, autoInc, insertedBy, inUse>>

\* time d passes under a context
Elapse(ctx, d) == IF ctx = Nil THEN Nil ELSE Ptr(ctx[1] - d)

\* lastId, err := res.LastInsertId(): the identifier of this statement's row
LastInsertId(newId, rows) == newId

\* createProduct up to the call of fetchOne.  The context made here is the
\* one handed to fetchOne; the prepared statement is never closed.
Insert(r) ==
    LET q == req[r]
        ctx == WithTimeout(Background, TimeoutSec)
        m == InputModel(q.body.args)
        row == [Id |-> autoInc, col |-> [c \in Cols |-> Ptr(m[c].String)]]
        written == /\ store' = Append(store, row)
                   /\ insertedBy' = Append(insertedBy, r)
                   /\ autoInc' = autoInc + 1
    IN
    /\ q.pc = "insert"
    /\ ConnAvailable
    /\ \/ PrepareFails(r, "insert")
       \/ \E d \in Durations :
            /\ stmts' = stmts + 1
            /\ inUse' = inUse
            /\ IF Expires(ctx, d)
               THEN /\ req' = [req EXCEPT ![r] =
                        [Finish(r, "insert", Nil, "ErrDeadline") EXCEPT
                            !.ops = @ + 1, !.insDur = d]]
                    /\ \/ written
                       \/ UNCHANGED <<store, autoInc, insertedBy>>
               ELSE /\ written
                    /\ req' = [req EXCEPT ![r] =
                        [q EXCEPT !.pc = "readback", !.at = "insert",
                                  !.ops = @ + 1, !.insDur = d,
                                  !.id = LastInsertId(autoInc, store'),
                                  !.ctx = Elapse(ctx, d)]]

Next ==
    \E r \in Slots :
        \/ \E b \in Workload : Receive(r, b)
        \/ Handle(r)
        \/ FetchTotalData(r)
        \/ FetchList(r)
        \/ AwaitDone(r)
        \/ FetchOne(r)
        \/ Insert(r)

Spec == Init /\ [][Next]_vars

\* one request, any request the service accepts
NextOne ==
    \/ \E b \in WideWorkload : Receive(1, b)
    \/ Handle(1)
    \/ FetchTotalData(1)
    \/ FetchList(1)
    \/ AwaitDone(1)
    \/ FetchOne(1)
    \/ Insert(1)

SpecOne == Init /\ [][NextOne]_vars

(* ------------------------------ properties ---------------------------- *)

Done(r) == req[r].pc = "done"

\* the table is as it was when the service started
StoreUntouched ==
    /\ Len(store) <= MaxInitRows
    /\ autoInc = Len(store) + 1
    /\ \A i \in 1..Len(store) : store[i] = InitRow(i) /\ insertedBy[i] = 0

\* n is the least integer with n >= t / l, for l > 0
IsCeiling(n, t, l) == n * l >= t /\ (n - 1) * l < t

\* C1: a products query with limit L > 0 answered when the table held T rows
\* at the count returns totalData = T and totalPages = ceil(T / L); the
\* spec's three examples are (25, 10) -> 3, (20, 10) -> 2 and (0, 10) -> 0.
C1_TotalPagesIsCeiling ==
    /\ TotalPages(25, 10) = {3}
    /\ TotalPages(20, 10) = {2}
    /\ TotalPages(0, 10) = {0}
    /\ \A r \in Slots :
         LET q == req[r]
             l == IF q.body.limit = Nil THEN DefaultLimit ELSE q.body.limit[1]
         IN  (Done(r) /\ q.body.op = "products" /\ q.value # Nil /\ l > 0)
             => /\ q.value[1].totalData = q.rowsAtCount
                /\ IsCeiling(q.value[1].totalPages, q.rowsAtCount, l)

\* a products query over a row count its limit does not divide was answered
C1_Witness ==
    \E r \in Slots :
        /\ Done(r) /\ req[r].body.op = "products" /\ req[r].value # Nil
        /\ req[r].body.limit = Ptr(2) /\ req[r].rowsAtCount = 1
        /\ req[r].value[1].totalPages = 1

\* C2: a requested page P <= 1, or no page, makes the effective page 1 and
\* the page fetch use offset 0; P > 1 makes the fetch use offset (P-1)*L for
\* the effective limit L; the response echoes the effective page.
C2_OffsetOfPage ==
    \A r \in Slots :
        LET q == req[r]
            p == q.body.page
            l == IF q.body.limit = Nil THEN DefaultLimit ELSE q.body.limit[1]
            fetched == Done(r) /\ q.body.op = "products" /\ q.at = "list"
                       /\ q.err # "ErrDriver"
        IN  /\ (fetched /\ (p = Nil \/ p[1] <= 1))
                => /\ q.offset = 0
                   /\ q.value # Nil => q.value[1].page = 1
            /\ (fetched /\ p # Nil /\ p[1] > 1)
                => /\ q.offset = (p[1] - 1) * l
                   /\ q.value # Nil => q.value[1].page = p[1]

\* page 2 was fetched with limit 2, and page 0 was not
C2_Witness ==
    \E r \in Slots :
        /\ Done(r) /\ req[r].body.op = "products" /\ req[r].value # Nil
        /\ req[r].body.page = Ptr(2) /\ req[r].body.limit = Ptr(2)
        /\ req[r].offset = 2

\* the entities a finished request returned
Returned(r) ==
    LET q == req[r]
    IN  IF ~Done(r) \/ q.value = Nil THEN {}
        ELSE IF q.body.op = "products"
        THEN {q.value[1].data[i] : i \in 1..Len(q.value[1].data)}
        ELSE {q.value[1]}

\* C3: every entity returned by the by-id fetch and by the page fetch carries
\* the absent marker for a column that is NULL in storage and the stored
\* string for a column that is present.
C3_NullIsAbsent ==
    \A r \in Slots : \A e \in Returned(r) :
        \A i \in 1..Len(store) :
            store[i].Id = e.Id => \A c \in Cols : e.col[c] = store[i].col[c]

\* C4: a product(id) query whose id matches no stored row ends in an error
\* and a null product: never an entity, never null without an error.
C4_NotFoundIsError ==
    \A r \in Slots :
        LET q == req[r]
        IN  (Done(r) /\ q.body.op = "product" /\ q.body.id # Nil /\ ~q.hit)
            => /\ q.value = Nil
               /\ q.err \in {"ErrNoRows", "ErrDriver", "ErrDeadline"}

\* a by-id query ran against a table without its row and got sql.ErrNoRows
C4_Witness ==
    \E r \in Slots :
        /\ Done(r) /\ req[r].body.op = "product" /\ req[r].body.id # Nil
        /\ ~req[r].hit /\ req[r].err = "ErrNoRows" /\ req[r].value = Nil

\* C5: a product query without an integer id resolves to null with no error
\* and issues no store operation: table and pool are as they were.
C5_NoIdNoStore ==
    \A r \in Slots :
        LET q == req[r]
        IN  (Done(r) /\ q.body.op = "product" /\ q.body.id = Nil)
            => /\ q.value = Nil /\ q.err = "nil" /\ q.status = StatusOK
               /\ q.ops = 0 /\ q.cursor = "none"
               /\ stmts = 0 /\ inUse = 0 /\ StoreUntouched

\* a product query without id was answered
C5_Witness ==
    \E r \in Slots :
        /\ Done(r) /\ req[r].body.op = "product" /\ req[r].body.id = Nil
        /\ req[r].engine = 1 /\ req[r].at = "resolve"

\* a createProduct call that succeeded
Created(r) ==
    Done(r) /\ req[r].body.op = "createProduct" /\ req[r].err = "nil"
    /\ req[r].value # Nil

\* C6: a createProduct that succeeds returns the identifier of the row this
\* call inserted and its input values; every product(id) answer for that
\* identifier carries the same values; no two creates return the same id.
C6_CreateRoundTrip ==
    \A r \in Slots :
        Created(r) =>
            LET e == req[r].value[1]
            IN  /\ \E i \in 1..Len(store) :
                      insertedBy[i] = r /\ store[i].Id = e.Id
                /\ \A c \in Cols : e.col[c] = req[r].body.args[c]
                /\ \A s \in Slots \ {r} :
                      /\ Created(s) => req[s].value[1].Id # e.Id
                      /\ (Done(s) /\ req[s].body.op = "product"
                          /\ req[s].value # Nil /\ req[s].body.id = Ptr(e.Id))
                         => req[s].value[1] = e

\* two creates with different inputs both succeeded
C6_Witness ==
    \E r, s \in Slots :
        /\ r # s /\ Created(r) /\ Created(s)
        /\ req[r].body.args # req[s].body.args

\* C7: a createProduct request without one of its required arguments is
\* rejected by validation before the resolver runs: nothing is inserted and
\* the table is unchanged.
C7_MissingArgRejected ==
    \A r \in Slots :
        LET q == req[r]
        IN  (Done(r) /\ q.body.op = "createProduct"
             /\ \E c \in Cols : q.body.args[c] = Nil)
            => /\ q.err = "ErrValidation" /\ q.at = "validate"
               /\ q.value = Nil /\ q.ops = 0
               /\ stmts = 0 /\ StoreUntouched

\* a createProduct request without endPeriod was answered
C7_Witness ==
    \E r \in Slots :
        /\ Done(r) /\ req[r].body.op = "createProduct"
        /\ req[r].body.args["endPeriod"] = Nil
        /\ \A c \in Cols \ {"endPeriod"} : req[r].body.args[c] # Nil

\* the handler's answer to a finished request is 400 exactly for the bodies
\* of kinds, with the engine not run, and otherwise 200 with the engine run
\* once
AnswersBadRequestFor(kinds) ==
    \A r \in Slots :
        LET q == req[r]
        IN  /\ q.engine <= 1
            /\ Done(r) =>
                  /\ q.status = StatusBadRequest <=> q.body.json \in kinds
                  /\ q.status = StatusBadRequest => q.engine = 0
                  /\ q.status # StatusBadRequest
                       => q.status = StatusOK /\ q.engine = 1

C9_ReadBackOwnDeadline ==
    \A r \in Slots :
        LET q == req[r]
        IN  (Done(r) /\ q.body.op = "createProduct" /\ q.at = "readback"
             /\ q.insDur < TimeoutSec /\ q.rbDur < TimeoutSec)
            => q.err # "ErrDeadline"

\* C10: when a data access call has returned, the cursor it opened is closed
\* and its connection is back in the pool.
C10_ReleasedOnReturn ==
    /\ \A r \in Slots : Done(r) => req[r].cursor # "open"
    /\ (\A r \in Slots : req[r].pc \in {"idle", "done"}) => inUse = 0

====
